---- MODULE Spec2Model ----
(***************************************************************************)
(* titoland: a grid world (Game), its action catalog (AgentTools), the     *)
(* orchestration loop that drives it from an external decision service     *)
(* (Agent) and the host page that starts, stops and resets it (App).       *)
(***************************************************************************)
EXTENDS Integers, Sequences, FiniteSets, TLC

VARIABLES
    world,                \* Game.world: [size, grid, agent]
    budget,               \* cost of the mutations applied to the current world
    isRunning,            \* Agent.isRunning
    conversationHistory,  \* Agent.conversationHistory
    apiKey,               \* Agent.apiKey
    runs,                 \* one record per invocation of Agent.runLoop
    ui                    \* App: the buttons' disabled flags and the state text

vars == <<world, budget, isRunning, conversationHistory, apiKey, runs, ui>>

-----------------------------------------------------------------------------
(* Bounds of the model.                                                    *)

\* Total cost of the mutating catalog operations applied to one world: a
\* successful move costs 1, a successful gather, craft or build costs 3.
MaxBudget == 10
\* Number of times Agent.start gets to run its loop.
MaxRuns == 2
\* Number of requests sent to the decision service, over all runs.
MaxServiceCalls == 2

-----------------------------------------------------------------------------
(* JavaScript values stored in, or read from, the inventory object.        *)

Num(n) == [type |-> "number", value |-> n]
Str(s) == [type |-> "string", value |-> s]
Undefined == [type |-> "undefined"]
\* What an object literal inherits from Object.prototype under this key.
Inherited == [type |-> "function", value |-> "function Object() { [native code] }"]

\* Keys every object literal inherits (the ones the model draws inputs from).
ObjectPrototypeKeys == {"constructor"}

\* obj[key] for an object literal: own property, else the inherited one.
Lookup(obj, key) ==
    IF key \in DOMAIN obj THEN obj[key]
    ELSE IF key \in ObjectPrototypeKeys THEN Inherited
    ELSE Undefined

\* ToBoolean
Truthy(v) ==
    CASE v.type = "number" -> v.value # 0
      [] v.type = "string" -> v.value # ""
      [] v.type = "function" -> TRUE
      [] v.type = "object" -> TRUE
      [] OTHER -> FALSE

DigitText(d) ==
    CASE d = 0 -> "0" [] d = 1 -> "1" [] d = 2 -> "2" [] d = 3 -> "3"
      [] d = 4 -> "4" [] d = 5 -> "5" [] d = 6 -> "6" [] d = 7 -> "7"
      [] d = 8 -> "8" [] OTHER -> "9"

\* String(n) for an integer n
RECURSIVE NumberText(_)
NumberText(n) ==
    IF n < 0 THEN "-" \o NumberText(0 - n)
    ELSE IF n < 10 THEN DigitText(n)
    ELSE NumberText(n \div 10) \o DigitText(n % 10)

\* String(v) where a template literal interpolates an inventory value
ValueText(v) ==
    CASE v.type = "number" -> NumberText(v.value)
      [] v.type = "undefined" -> "undefined"
      [] OTHER -> v.value

\* v + n, n a number: addition on numbers, concatenation otherwise
Plus(v, n) ==
    IF v.type = "number" THEN Num(v.value + n)
    ELSE Str(v.value \o NumberText(n))

\* v >= n, n a number: a non-numeric text or a function compares as NaN
GreaterEq(v, n) == v.type = "number" /\ v.value >= n

-----------------------------------------------------------------------------
(* Game: world generation.                                                 *)

gridSize == 20

Coords == 0 .. (gridSize - 1)
Positions == [x : Coords, y : Coords]

\* Digits kept of the pseudo-random value: random(x, y) is floor(r * RandomScale)
RandomScale == 10000

\* seed - Math.floor(seed) for seed = Math.sin(x * 12.9898 + y * 78.233) * 43758.5453,
\* row y + 1, column x + 1, in units of 1 / RandomScale.
randomTable == <<
    <<   0, 9216,  572, 5582, 3737, 4534, 6260, 1655, 3291, 5396, 9715, 8211, 1790, 9951, 8160, 4418, 9268, 4341, 6441, 3226>>,
    <<1829, 7400, 5643, 4547, 2724, 8234, 7528, 5037, 5234, 5217,  198, 5923, 6111, 4013, 8490, 3408, 4224, 2378, 9873, 7099>>,
    << 271,  739, 3642, 3352, 9407, 5378, 5687, 5665, 5748, 5682, 3777, 9159, 8122, 1975, 7479, 6655, 9572, 4558, 9256, 5011>>,
    <<2694, 4199, 2964, 9032, 6177, 9064, 6880, 1209, 8445,  589, 2862, 7411, 6320, 1331,  632, 2077, 4902, 4406, 1585,  263>>,
    <<2114, 8254, 5386,  343, 1070, 2671, 9741, 4280,   31, 4998, 5772, 7371, 6311,  199, 4205, 3511, 2427, 4661, 3322, 8964>>,
    << 561, 1557, 1115, 8102, 1989, 1878, 6802, 9315, 6718, 9752, 8717, 5277, 9213, 5255, 3197, 6849, 5394, 4664,  391, 9001>>,
    <<9749, 8158,  357,  226, 8225,  858, 2597, 1427, 6697, 4170, 7390, 8442, 6980, 8786, 4916, 8355, 3189, 8864, 6808, 9404>>,
    <<1221, 1076, 9042, 5414, 7909, 3788, 7461,  570, 8391, 9351, 1471, 9149,  998, 5285, 9070, 5659, 6952, 8283, 7223, 9830>>,
    <<3345, 9732, 2030, 2322,  175,  678, 5856, 8727, 5536,  769, 6118, 2326, 4943, 1244, 2142, 6509, 5069, 9973, 7365, 8313>>,
    <<9199, 2854, 4152, 5093, 1074, 5912, 3217, 5306, 3992, 3332, 7713, 2917, 8233, 8345, 9856, 3765, 3311, 1360, 2216, 7394>>,
    <<7292, 7727, 9963, 8161, 2708, 2663, 7607, 4472, 7194,  337, 3426, 8424, 6490, 8174, 2729, 8047, 7652, 7283, 1976, 4432>>,
    <<7818,   82, 2130, 7275, 8303, 9889, 5299, 6460, 9861, 5919, 5013, 3567, 8200, 6208, 7995, 8763, 4715, 7945, 7695, 5684>>,
    <<4775, 2567, 5330, 9920, 2102, 2814, 2604,  483, 4038, 1773, 1415, 7823,  520, 5746, 1402, 6040, 2687,  779, 1859, 8324>>,
    <<2771, 6559, 9552, 4988, 3907, 4723, 2369, 1132, 4360,  994, 1621,  650, 2132, 2066, 6401, 9804, 2111, 4134, 7163, 1385>>,
    <<4978, 5048, 8985, 7370, 6068, 4754, 5611, 1526, 4175, 2697, 4917, 9345,  405, 1003,  466, 6874, 4054, 1859, 3472,  192>>,
    <<6186, 1043, 2679, 1562, 5100, 7551, 6204,  636,  244, 5184, 1482, 6021, 6297, 2817, 5206, 9468, 7590, 6430, 9648, 7286>>,
    <<9782, 3536, 5343, 6120, 3221, 5215, 6596, 4813, 3412, 9136, 3432, 2353, 3456, 9093, 9392, 2315, 1120, 8451, 8971, 4853>>,
    <<6885, 6152, 8391, 9371, 9977, 9960, 8146, 8320, 1796, 5911, 9184, 4757, 5583, 4901, 9634, 9897, 5031, 5320,  198, 7619>>,
    <<7761, 4539, 3141, 2836, 5568, 6111, 1541,  689, 4484, 9212, 7082, 4051, 5023, 4840, 4476, 7651, 1134, 4225,  905, 2039>>,
    <<8723, 4653, 8552, 7404, 1946,  943, 8540, 3079, 8698,  926, 4982, 1545, 9018, 5205, 7086, 9852, 6155, 2484, 7712, 6515>> >>

random(x, y) == randomTable[y + 1][x + 1]

\* A tile is a record; an optional field that is undefined is left out of it.
generateTile(x, y) ==
    LET r == random(x, y) IN
    IF x < 2 \/ x >= gridSize - 2 \/ y < 2 \/ y >= gridSize - 2
    THEN IF r * 10 < 3 * RandomScale
         THEN [terrain |-> "water"]
         ELSE [terrain |-> "grass"]
    ELSE IF r * 10 < 2 * RandomScale
    THEN [terrain |-> "forest", resource |-> "wood",
          resourceAmount |-> ((r * 20) \div RandomScale) + 5]
    ELSE IF r * 100 < 35 * RandomScale
    THEN [terrain |-> "mountain", resource |-> "stone",
          resourceAmount |-> ((r * 15) \div RandomScale) + 3]
    ELSE IF r * 100 < 45 * RandomScale
    THEN [terrain |-> "desert", resource |-> "sand",
          resourceAmount |-> ((r * 10) \div RandomScale) + 2]
    ELSE IF r * 10 >= 8 * RandomScale
    THEN [terrain |-> "grass", resource |-> "food",
          resourceAmount |-> ((r * 5) \div RandomScale) + 1]
    ELSE [terrain |-> "grass"]

EmptyInventory == [k \in {} |-> Undefined]

createWorld ==
    [size |-> gridSize,
     grid |-> [row \in 1 .. gridSize |->
                 [col \in 1 .. gridSize |-> generateTile(col - 1, row - 1)]],
     agent |-> [position |-> [x |-> 10, y |-> 10],
                inventory |-> EmptyInventory,
                isActive |-> FALSE]]

-----------------------------------------------------------------------------
(* Game: queries and mutation primitives.  A primitive maps a world to     *)
(* [ok |-> its return value, world |-> the world it leaves].               *)

isValidPosition(pos) ==
    pos.x >= 0 /\ pos.x < gridSize /\ pos.y >= 0 /\ pos.y < gridSize

Null == [terrain |-> "null"]

\* grid[pos.y][pos.x]; the rows and columns of the model count from 1
getTileAt(w, pos) ==
    IF isValidPosition(pos) THEN w.grid[pos.y + 1][pos.x + 1] ELSE Null

Has(tile, f) == f \in DOMAIN tile

\* setAgentPosition without its water test
setAgentPositionOntoWater(w, pos) ==
    IF isValidPosition(pos) /\ getTileAt(w, pos) # Null
    THEN [ok |-> TRUE, world |-> [w EXCEPT !.agent.position = pos]]
    ELSE [ok |-> FALSE, world |-> w]

setAgentPosition(w, pos) ==
    IF isValidPosition(pos)
       /\ getTileAt(w, pos) # Null /\ getTileAt(w, pos).terrain # "water"
    THEN [ok |-> TRUE, world |-> [w EXCEPT !.agent.position = pos]]
    ELSE [ok |-> FALSE, world |-> w]

addToInventory(w, item, amount) ==
    LET inv == w.agent.inventory
        inv0 == IF ~Truthy(Lookup(inv, item))
                THEN [k \in DOMAIN inv \cup {item} |->
                         IF k = item THEN Num(0) ELSE inv[k]]
                ELSE inv
        sum == Plus(Lookup(inv0, item), amount)
    IN [w EXCEPT !.agent.inventory =
           [k \in DOMAIN inv0 \cup {item} |-> IF k = item THEN sum ELSE inv0[k]]]

removeFromInventory(w, item, amount) ==
    LET inv == w.agent.inventory IN
    IF GreaterEq(Lookup(inv, item), amount)
    THEN LET left == inv[item].value - amount IN
         [ok |-> TRUE,
          world |-> [w EXCEPT !.agent.inventory =
              IF left = 0
              THEN [k \in DOMAIN inv \ {item} |-> inv[k]]
              ELSE [inv EXCEPT ![item] = Num(left)]]]
    ELSE [ok |-> FALSE, world |-> w]

hasInInventory(w, item, amount) ==
    LET v == Lookup(w.agent.inventory, item) IN
    GreaterEq(IF Truthy(v) THEN v ELSE Num(0), amount)

\* removeResourceFromTile without the clearing of a tile that reaches 0
removeResourceFromTileKeepingKind(w, pos, amount) ==
    LET tile == getTileAt(w, pos) IN
    IF tile # Null /\ Has(tile, "resource") /\ Has(tile, "resourceAmount")
       /\ tile.resourceAmount # 0 /\ tile.resourceAmount >= amount
    THEN [ok |-> TRUE,
          world |-> [w EXCEPT !.grid[pos.y + 1][pos.x + 1].resourceAmount = @ - amount]]
    ELSE [ok |-> FALSE, world |-> w]

removeResourceFromTile(w, pos, amount) ==
    LET tile == getTileAt(w, pos) IN
    IF tile # Null /\ Has(tile, "resource") /\ Has(tile, "resourceAmount")
       /\ tile.resourceAmount # 0 /\ tile.resourceAmount >= amount
    THEN LET left == tile.resourceAmount - amount IN
         [ok |-> TRUE,
          world |-> [w EXCEPT !.grid[pos.y + 1][pos.x + 1] =
              IF left = 0
              THEN [f \in DOMAIN tile \ {"resource", "resourceAmount"} |-> tile[f]]
              ELSE [tile EXCEPT !.resourceAmount = left]]]
    ELSE [ok |-> FALSE, world |-> w]

\* placeStructure without its test of an existing structure
placeStructureOverExisting(w, pos, structure) ==
    LET tile == getTileAt(w, pos) IN
    IF tile # Null /\ tile.terrain # "water"
    THEN [ok |-> TRUE,
          world |-> [w EXCEPT !.grid[pos.y + 1][pos.x + 1] =
              [f \in DOMAIN tile \cup {"structure"} |->
                  IF f = "structure" THEN structure ELSE tile[f]]]]
    ELSE [ok |-> FALSE, world |-> w]

placeStructure(w, pos, structure) ==
    LET tile == getTileAt(w, pos) IN
    IF tile # Null /\ ~Has(tile, "structure") /\ tile.terrain # "water"
    THEN [ok |-> TRUE,
          world |-> [w EXCEPT !.grid[pos.y + 1][pos.x + 1] =
              [f \in DOMAIN tile \cup {"structure"} |->
                  IF f = "structure" THEN structure ELSE tile[f]]]]
    ELSE [ok |-> FALSE, world |-> w]

\* reset that carries the inventory over into the new world
resetKeepingInventory ==
    [createWorld EXCEPT !.agent.inventory = world.agent.inventory]

reset == createWorld

-----------------------------------------------------------------------------
(* AgentTools: the action catalog.  An operation maps a world to           *)
(* [world |-> the world it leaves, result |-> the ToolResult it returns].  *)

validDirections == {"north", "south", "east", "west"}

Failure(w, message) ==
    [world |-> w, result |-> [success |-> FALSE, message |-> message]]

Success(w, message, data) ==
    [world |-> w, result |-> [success |-> TRUE, message |-> message, data |-> data]]

PositionText(pos) == "(" \o NumberText(pos.x) \o ", " \o NumberText(pos.y) \o ")"

\* move with north and south exchanged
moveWithNorthAndSouthExchanged(w, direction) ==
    IF direction \notin validDirections
    THEN Failure(w, "Invalid direction: " \o direction
                    \o ". Must be one of: north, south, east, west")
    ELSE LET currentPos == w.agent.position
             newPos ==
                 CASE direction = "north" -> [currentPos EXCEPT !.y = @ + 1]
                   [] direction = "south" -> [currentPos EXCEPT !.y = @ - 1]
                   [] direction = "east" -> [currentPos EXCEPT !.x = @ + 1]
                   [] direction = "west" -> [currentPos EXCEPT !.x = @ - 1]
             set == setAgentPosition(w, newPos)
         IN IF set.ok
            THEN Success(set.world,
                         "Moved " \o direction \o " to position " \o PositionText(newPos),
                         [position |-> newPos])
            ELSE Failure(set.world, "Cannot move " \o direction
                                    \o " - obstacle or boundary in the way")

move(w, direction) ==
    IF direction \notin validDirections
    THEN Failure(w, "Invalid direction: " \o direction
                    \o ". Must be one of: north, south, east, west")
    ELSE LET currentPos == w.agent.position
             newPos ==
                 CASE direction = "north" -> [currentPos EXCEPT !.y = @ - 1]
                   [] direction = "south" -> [currentPos EXCEPT !.y = @ + 1]
                   [] direction = "east" -> [currentPos EXCEPT !.x = @ + 1]
                   [] direction = "west" -> [currentPos EXCEPT !.x = @ - 1]
             set == setAgentPosition(w, newPos)
         IN IF set.ok
            THEN Success(set.world,
                         "Moved " \o direction \o " to position " \o PositionText(newPos),
                         [position |-> newPos])
            ELSE Failure(set.world, "Cannot move " \o direction
                                    \o " - obstacle or boundary in the way")

viewRadius == 2

\* The offsets in the order the two nested loops visit them: dy outer, dx inner.
ViewOffsets ==
    [i \in 1 .. (2 * viewRadius + 1) * (2 * viewRadius + 1) |->
        [x |-> ((i - 1) % (2 * viewRadius + 1)) - viewRadius,
         y |-> ((i - 1) \div (2 * viewRadius + 1)) - viewRadius]]

TileInfo(w, pos, rel) ==
    LET checkPos == [x |-> pos.x + rel.x, y |-> pos.y + rel.y]
        tile == getTileAt(w, checkPos)
    IN [f \in DOMAIN tile \cup {"position", "relativePosition"} |->
           CASE f = "position" -> checkPos
             [] f = "relativePosition" -> rel
             [] OTHER -> tile[f]]

look(w) ==
    LET pos == w.agent.position
        inBounds == SelectSeq(ViewOffsets,
            LAMBDA rel : getTileAt(w, [x |-> pos.x + rel.x, y |-> pos.y + rel.y]) # Null)
        visible == [i \in 1 .. Len(inBounds) |-> TileInfo(w, pos, inBounds[i])]
    IN Success(w, "Looking around position " \o PositionText(pos),
               [tiles |-> visible, currentPosition |-> pos])

Min(a, b) == IF a <= b THEN a ELSE b

\* gather without the cap of 5 per call
gatherWithoutCap(w, resource) ==
    LET pos == w.agent.position
        tile == getTileAt(w, pos)
    IN IF tile = Null THEN Failure(w, "Invalid position")
       ELSE IF Has(tile, "resource") /\ tile.resource = resource
               /\ Has(tile, "resourceAmount") /\ tile.resourceAmount > 0
       THEN LET amountToGather == tile.resourceAmount
                removed == removeResourceFromTile(w, pos, amountToGather)
                added == addToInventory(removed.world, resource, amountToGather)
            IN Success(added, "Gathered " \o NumberText(amountToGather) \o " " \o resource,
                       [resource |-> resource, amount |-> amountToGather])
       ELSE Failure(w, "No " \o resource \o " available at current position")

\* gather without the comparison of the tile's kind with the requested one
gatherAnyKind(w, resource) ==
    LET pos == w.agent.position
        tile == getTileAt(w, pos)
    IN IF tile = Null THEN Failure(w, "Invalid position")
       ELSE IF Has(tile, "resource")
               /\ Has(tile, "resourceAmount") /\ tile.resourceAmount > 0
       THEN LET amountToGather == Min(5, tile.resourceAmount)
                removed == removeResourceFromTile(w, pos, amountToGather)
                added == addToInventory(removed.world, resource, amountToGather)
            IN Success(added, "Gathered " \o NumberText(amountToGather) \o " " \o resource,
                       [resource |-> resource, amount |-> amountToGather])
       ELSE Failure(w, "No " \o resource \o " available at current position")

gather(w, resource) ==
    LET pos == w.agent.position
        tile == getTileAt(w, pos)
    IN IF tile = Null THEN Failure(w, "Invalid position")
       ELSE IF Has(tile, "resource") /\ tile.resource = resource
               /\ Has(tile, "resourceAmount") /\ tile.resourceAmount # 0
               /\ tile.resourceAmount > 0
       THEN LET amountToGather == Min(5, tile.resourceAmount)
                removed == removeResourceFromTile(w, pos, amountToGather)
                added == addToInventory(removed.world, resource, amountToGather)
            IN Success(added, "Gathered " \o NumberText(amountToGather) \o " " \o resource,
                       [resource |-> resource, amount |-> amountToGather])
       ELSE Failure(w, "No " \o resource \o " available at current position")

\* An object literal: its own entries in insertion order.
Object(entries) == [type |-> "object", entries |-> entries]

\* Object.entries(v): the own enumerable properties (a built-in function has none)
Entries(v) == IF v.type = "object" THEN v.entries ELSE <<>>

recipes ==
    [axe |-> Object(<<<<"wood", 3>>, <<"stone", 2>>>>),
     pickaxe |-> Object(<<<<"wood", 2>>, <<"stone", 3>>>>),
     campfire |-> Object(<<<<"wood", 5>>, <<"stone", 3>>>>)]

buildRequirements ==
    [shelter |-> Object(<<<<"wood", 10>>, <<"stone", 5>>>>),
     campfire |-> Object(<<<<"wood", 3>>, <<"stone", 2>>>>)]

\* The check loop stopping after its first entry
FirstShortOfFirstEntry(w, entries) ==
    IF entries # <<>> /\ ~hasInInventory(w, entries[1][1], entries[1][2])
    THEN 1 ELSE 0

\* Index of the first entry the inventory is short of, 0 when there is none.
FirstShort(w, entries) ==
    LET short == {i \in 1 .. Len(entries) :
                     ~hasInInventory(w, entries[i][1], entries[i][2])}
    IN IF short = {} THEN 0 ELSE CHOOSE i \in short : \A j \in short : i <= j

\* The loop of removals left out
ConsumeNothing(w, entries) == w

\* The loop that calls removeFromInventory on every entry, in order.
RECURSIVE ConsumeResources(_, _)
ConsumeResources(w, entries) ==
    IF entries = <<>> THEN w
    ELSE ConsumeResources(
             removeFromInventory(w, Head(entries)[1], Head(entries)[2]).world,
             Tail(entries))

craft(w, item) ==
    LET recipe == Lookup(recipes, item) IN
    IF ~Truthy(recipe)
    THEN Failure(w, "Unknown item: " \o item
                    \o ". Available items: axe, pickaxe, campfire")
    ELSE LET entries == Entries(recipe)
             short == FirstShort(w, entries)
         IN IF short # 0
            THEN Failure(w, "Need " \o NumberText(entries[short][2]) \o " "
                    \o entries[short][1] \o " to craft " \o item \o ", but only have "
                    \o (LET have == Lookup(w.agent.inventory, entries[short][1])
                        IN ValueText(IF Truthy(have) THEN have ELSE Num(0))))
            ELSE Success(addToInventory(ConsumeResources(w, entries), item, 1),
                         "Crafted " \o item, [item |-> item])

build(w, structure) ==
    LET requirements == Lookup(buildRequirements, structure) IN
    IF ~Truthy(requirements)
    THEN Failure(w, "Unknown structure: " \o structure
                    \o ". Available: shelter, campfire")
    ELSE LET entries == Entries(requirements)
             short == FirstShort(w, entries)
             pos == w.agent.position
             placed == placeStructure(w, pos, structure)
         IN IF short # 0
            THEN Failure(w, "Need " \o NumberText(entries[short][2]) \o " "
                    \o entries[short][1] \o " to build " \o structure)
            ELSE IF ~placed.ok
            THEN Failure(placed.world, "Cannot build here - location occupied or invalid")
            ELSE Success(ConsumeResources(placed.world, entries),
                         "Built " \o structure \o " at position " \o PositionText(pos),
                         [structure |-> structure, position |-> pos])

\* The (item, amount) pairs of Object.entries(inventory); their order is not kept.
getInventory(w) ==
    LET inventory == w.agent.inventory
        items == {[item |-> k, amount |-> inventory[k]] : k \in DOMAIN inventory}
    IN Success(w, "Inventory contains " \o NumberText(Cardinality(items)) \o " item types",
               [inventory |-> items])

-----------------------------------------------------------------------------
(* Agent: the orchestration loop.                                          *)

maxIterations == 30

\* args.<key> || "", then String(...)
Arg(args, key) == IF key \in DOMAIN args THEN args[key] ELSE ""

\* executeTool with a default case that reports success
executeToolAcceptingAnyName(w, name, args) ==
    CASE name = "move" -> move(w, Arg(args, "direction"))
      [] name = "look" -> look(w)
      [] name = "gather" -> gather(w, Arg(args, "resource"))
      [] name = "craft" -> craft(w, Arg(args, "item"))
      [] name = "build" -> build(w, Arg(args, "structure"))
      [] name = "getInventory" -> getInventory(w)
      [] OTHER -> Success(w, "Unknown tool: " \o name, [tool |-> name])

executeTool(w, name, args) ==
    CASE name = "move" -> move(w, Arg(args, "direction"))
      [] name = "look" -> look(w)
      [] name = "gather" -> gather(w, Arg(args, "resource"))
      [] name = "craft" -> craft(w, Arg(args, "item"))
      [] name = "build" -> build(w, Arg(args, "structure"))
      [] name = "getInventory" -> getInventory(w)
      [] OTHER -> Failure(w, "Unknown tool: " \o name)

\* The for loop over functionCalls: the world it leaves and functionResponses.
RECURSIVE ExecuteCalls(_, _, _)
ExecuteCalls(w, functionCalls, functionResponses) ==
    IF functionCalls = <<>>
    THEN [world |-> w, functionResponses |-> functionResponses]
    ELSE LET call == Head(functionCalls)
             out == executeTool(w, call.name, call.args)
         IN ExecuteCalls(out.world, Tail(functionCalls),
                Append(functionResponses,
                       [functionResponse |-> [name |-> call.name,
                                              response |-> out.result]]))

\* What the mutations of these calls, executed in order from world w, cost.
RECURSIVE CallsCost(_, _)
CallsCost(w, functionCalls) ==
    IF functionCalls = <<>> THEN 0
    ELSE LET call == Head(functionCalls)
             out == executeTool(w, call.name, call.args)
         IN (IF out.world = w THEN 0 ELSE IF call.name = "move" THEN 1 ELSE 3)
            + CallsCost(out.world, Tail(functionCalls))

SystemPrompt(goal) ==
    "You are an AI agent in a grid-based resource world. Your goal is: " \o goal

\* A run of runLoop: where it is suspended, its iteration counter, the last
\* answer of the service it received, the terminal lines it logged, and whether
\* stop() or Game.reset() was called since it started.
NewRun ==
    [pc |-> "awaitResponse", iteration |-> 1, response |-> [kind |-> "none"],
     logged |-> {}, stopRequested |-> FALSE, stale |-> FALSE]

Live(run) == run.pc \in {"awaitResponse", "pause"}

RECURSIVE SumIterations(_)
SumIterations(rs) ==
    IF rs = <<>> THEN 0 ELSE Head(rs).iteration + SumIterations(Tail(rs))

\* Every iteration of every run has sent one request.
TotalCalls == SumIterations(runs)

\* App.startAgent's lines after `await this.agent.start(goal)`
AgentFinishedUI == [startDisabled |-> FALSE, stopDisabled |-> TRUE, stateText |-> "Completed"]

RunningUI == [startDisabled |-> TRUE, stopDisabled |-> FALSE, stateText |-> "Running"]

StoppedUI == [startDisabled |-> FALSE, stopDisabled |-> TRUE, stateText |-> "Stopped"]

\* The lines after the while loop, reached by a break or by the loop condition.
AfterLoop(r, run, lines) ==
    /\ runs' = [runs EXCEPT ![r] =
           [run EXCEPT !.pc = "done",
                       !.logged = @ \cup lines \cup
                           (IF run.iteration >= maxIterations
                            THEN {"Reached maximum iterations"} ELSE {})]]
    /\ isRunning' = FALSE
    /\ ui' = AgentFinishedUI

\* Agent.start without its test of the credential
startWithoutCredential(goal, key) ==
    /\ isRunning' = TRUE
    /\ conversationHistory' =
           <<[role |-> "user", parts |-> <<[text |-> SystemPrompt(goal)]>>]>>
    /\ runs' = Append(runs, NewRun)
    /\ ui' = RunningUI

\* Agent.start up to its first suspension, the fetch of iteration 1.
start(goal, key) ==
    IF key = ""
    THEN /\ UNCHANGED <<isRunning, conversationHistory, runs>>
         /\ ui' = AgentFinishedUI
    ELSE /\ isRunning' = TRUE
         /\ conversationHistory' =
                <<[role |-> "user", parts |-> <<[text |-> SystemPrompt(goal)]>>]>>
         /\ runs' = Append(runs, NewRun)
         /\ ui' = RunningUI

\* Agent.stop
stop ==
    /\ isRunning' = FALSE
    /\ runs' = [r \in DOMAIN runs |->
                   IF Live(runs[r]) THEN [runs[r] EXCEPT !.stopRequested = TRUE]
                   ELSE runs[r]]

\* String.prototype.trim on the texts the model types into the inputs
Trim(s) == IF s = " " THEN "" ELSE s

-----------------------------------------------------------------------------
(* The texts the model passes to the catalog, types into the page and      *)
(* receives from the decision service.                                     *)

DirectionArgs == validDirections \cup {"up"}
ResourceArgs == {"wood", "stone", "sand", "food", "gold"}
ItemArgs == {"axe", "pickaxe", "campfire", "sword", "constructor"}
StructureArgs == {"shelter", "campfire", "tower", "constructor"}

GoalInputs == {"", " ", "build a shelter"}
ApiKeyInputs == {"", "key"}

FlyCall == [name |-> "fly", args |-> [height |-> "high"]]
GatherStoneCall == [name |-> "gather", args |-> [resource |-> "stone"]]

\* data.candidates?.[0]?.content of an answer, or the failure of the request
ServiceResponses ==
    {[kind |-> "error"], [kind |-> "nocontent"]}
    \cup {[kind |-> "content", functionCalls |-> c] :
            c \in {<<>>, <<FlyCall>>, <<GatherStoneCall>>,
                   <<FlyCall, GatherStoneCall>>, <<GatherStoneCall, FlyCall>>}}

-----------------------------------------------------------------------------
(* Initial state: new App(), which constructs the Game and the Agent.  The  *)
(* page's markup decides whether the Stop button starts out disabled.      *)

Init ==
    /\ world = createWorld
    /\ budget = 0
    /\ isRunning = FALSE
    /\ conversationHistory = <<>>
    /\ apiKey = ""
    /\ runs = <<>>
    /\ ui \in [startDisabled : {FALSE}, stopDisabled : BOOLEAN, stateText : {"Idle"}]

-----------------------------------------------------------------------------
(* Direct calls of the catalog and of Game.reset.                          *)

loopVars == <<isRunning, conversationHistory, apiKey, runs, ui>>

\* The caller takes the ToolResult; the world the operation leaves stays.
Call(out, cost) ==
    LET changed == out.world # world IN
    /\ changed => budget + cost <= MaxBudget
    /\ world' = out.world
    /\ budget' = IF changed THEN budget + cost ELSE budget
    /\ UNCHANGED loopVars

Move(direction) == Call(move(world, direction), 1)

Look == Call(look(world), 0)

Gather(resource) == Call(gather(world, resource), 3)

Craft(item) == Call(craft(world, item), 3)

Build(structure) == Call(build(world, structure), 3)

GetInventory == Call(getInventory(world), 0)

Reset ==
    /\ world' = reset
    /\ budget' = 0
    /\ UNCHANGED loopVars

NextWorld ==
    \/ \E direction \in DirectionArgs : Move(direction)
    \/ Look
    \/ \E resource \in ResourceArgs : Gather(resource)
    \/ \E item \in ItemArgs : Craft(item)
    \/ \E structure \in StructureArgs : Build(structure)
    \/ GetInventory
    \/ Reset

SpecWorld == Init /\ [][NextWorld]_vars

-----------------------------------------------------------------------------
(* The page's buttons and the loop's resumptions.                          *)

\* Click on Start: App.startAgent, with Agent.start up to its first fetch.
StartAgent(goalInput, apiKeyInput) ==
    LET goal == Trim(goalInput)
        key == Trim(apiKeyInput)
    IN /\ ~ui.startDisabled
       /\ IF goal = "" \/ key = ""
          THEN UNCHANGED vars
          ELSE /\ Len(runs) < MaxRuns
               /\ TotalCalls < MaxServiceCalls
               /\ apiKey' = key
               /\ start(goal, key)
               /\ UNCHANGED <<world, budget>>

\* Click on Stop: App.stopAgent
StopAgent ==
    /\ ~ui.stopDisabled
    /\ stop
    /\ ui' = StoppedUI
    /\ UNCHANGED <<world, budget, conversationHistory, apiKey>>

\* Click on Reset: App.resetWorld
ResetWorld ==
    /\ IF isRunning
       THEN /\ isRunning' = FALSE
            /\ ui' = StoppedUI
       ELSE UNCHANGED <<isRunning, ui>>
    /\ world' = reset
    /\ budget' = 0
    /\ runs' = [r \in DOMAIN runs |->
                   IF Live(runs[r])
                   THEN [runs[r] EXCEPT !.stopRequested = @ \/ isRunning,
                                        !.stale = TRUE]
                   ELSE runs[r]]
    /\ UNCHANGED <<conversationHistory, apiKey>>

\* The failed request logged, and the request sent again
FailedThenRetried(r, run, line) ==
    /\ TotalCalls < MaxServiceCalls
    /\ runs' = [runs EXCEPT ![r] = [run EXCEPT !.iteration = @ + 1,
                                               !.logged = @ \cup {line}]]
    /\ UNCHANGED <<world, budget, isRunning, conversationHistory, apiKey, ui>>

\* An answer without function calls taken as a round like any other
CompletedAsRound(r, run) ==
    /\ conversationHistory' =
           conversationHistory \o <<[role |-> "model", parts |-> <<>>],
                                    [role |-> "user", parts |-> <<>>]>>
    /\ runs' = [runs EXCEPT ![r] = [run EXCEPT !.pc = "pause"]]
    /\ UNCHANGED <<world, budget, isRunning, apiKey, ui>>

\* The failed request logged and sent again within the same round
FailedAndSentAgain(r, run, line) ==
    /\ runs' = [runs EXCEPT ![r] = [run EXCEPT !.logged = @ \cup {line}]]
    /\ UNCHANGED <<world, budget, isRunning, conversationHistory, apiKey, ui>>

\* A break out of the loop on a failed request: the catch block (callGemini
\* threw) and the `if (!response)` branch.
Failed(r, run, line) ==
    /\ AfterLoop(r, run, {line})
    /\ UNCHANGED <<world, budget, conversationHistory, apiKey>>

\* The `if (functionCalls.length === 0)` branch.
Completed(r, run) ==
    /\ AfterLoop(r, run, {"Agent completed its task"})
    /\ UNCHANGED <<world, budget, conversationHistory, apiKey>>

\* The for loop over the function calls, the two pushes on the conversation,
\* and the start of the pause.
ExecuteRound(r, run, functionCalls) ==
    LET done == ExecuteCalls(world, functionCalls, <<>>)
        cost == CallsCost(world, functionCalls)
    IN /\ budget + cost <= MaxBudget
       /\ world' = done.world
       /\ budget' = budget + cost
       /\ conversationHistory' =
              conversationHistory
              \o <<[role |-> "model",
                    parts |-> [i \in 1 .. Len(functionCalls) |->
                                  [functionCall |-> functionCalls[i]]]],
                   [role |-> "user", parts |-> done.functionResponses]>>
       /\ runs' = [runs EXCEPT ![r] = [run EXCEPT !.pc = "pause"]]
       /\ UNCHANGED <<isRunning, apiKey, ui>>

\* The fetch of run r settles: the rest of the iteration, up to the pause or
\* to the end of runLoop.
Response(r, response) ==
    /\ r \in DOMAIN runs
    /\ runs[r].pc = "awaitResponse"
    /\ LET run == [runs[r] EXCEPT !.response = response] IN
       IF response.kind = "error" THEN Failed(r, run, "Error")
       ELSE IF response.kind = "nocontent" THEN Failed(r, run, "No response from Gemini")
       ELSE IF response.functionCalls = <<>> THEN Completed(r, run)
       ELSE ExecuteRound(r, run, response.functionCalls)

\* The loop condition read with run r stopped or not, whatever the flag says
LoopHeadIgnoringStop(r) ==
    /\ r \in DOMAIN runs
    /\ runs[r].pc = "pause"
    /\ IF runs[r].iteration < maxIterations
       THEN /\ runs' = [runs EXCEPT ![r].pc = "awaitResponse", ![r].iteration = @ + 1]
            /\ UNCHANGED <<isRunning, ui>>
       ELSE AfterLoop(r, runs[r], {})
    /\ UNCHANGED <<world, budget, conversationHistory, apiKey>>

\* Run r resumes from its pause at the head of the while loop: the loop
\* condition, then either the next iteration up to its fetch or the end of
\* runLoop.
LoopHead(r) ==
    /\ r \in DOMAIN runs
    /\ runs[r].pc = "pause"
    /\ IF isRunning /\ runs[r].iteration < maxIterations
       THEN /\ runs' = [runs EXCEPT ![r].pc = "awaitResponse", ![r].iteration = @ + 1]
            /\ UNCHANGED <<isRunning, ui>>
       ELSE AfterLoop(r, runs[r], {})
    /\ UNCHANGED <<world, budget, conversationHistory, apiKey>>

\* The pause of run r elapses; a further request is sent only while the
\* requests of all runs stay within MaxServiceCalls.
PauseElapsed(r) ==
    /\ r \in DOMAIN runs
    /\ isRunning /\ runs[r].iteration < maxIterations => TotalCalls < MaxServiceCalls
    /\ LoopHead(r)

Next ==
    \/ \E goalInput \in GoalInputs, apiKeyInput \in ApiKeyInputs :
           StartAgent(goalInput, apiKeyInput)
    \/ StopAgent
    \/ ResetWorld
    \/ \E r \in 1 .. MaxRuns, response \in ServiceResponses : Response(r, response)
    \/ \E r \in 1 .. MaxRuns : PauseElapsed(r)

Spec == Init /\ [][Next]_vars

-----------------------------------------------------------------------------
(* One run of the page followed to its end, round after round: Start is    *)
(* clicked once, Stop at any moment.  The first answer of the service is   *)
(* any of ServiceResponses; the later ones fail, complete or request the    *)
(* unknown operation, so that the run can go on to its last round.  Every   *)
(* request is eventually answered and every pause eventually elapses.       *)

RunResponses(run) ==
    IF run.iteration = 1 THEN ServiceResponses
    ELSE {[kind |-> "error"], [kind |-> "nocontent"],
          [kind |-> "content", functionCalls |-> <<>>],
          [kind |-> "content", functionCalls |-> <<FlyCall>>]}

StartRun ==
    /\ runs = <<>>
    /\ StartAgent("build a shelter", "key")

AnswerRun ==
    /\ runs # <<>>
    /\ \E response \in RunResponses(runs[1]) : Response(1, response)

NextRun ==
    \/ StartRun
    \/ StopAgent
    \/ AnswerRun
    \/ LoopHead(1)

SpecRun ==
    Init /\ [][NextRun]_vars /\ WF_vars(AnswerRun) /\ WF_vars(LoopHead(1))

-----------------------------------------------------------------------------
(* The Agent's public methods called by a host that awaits start() as the  *)
(* page does, but without the page's tests of its inputs and buttons.      *)

GoalArgs == {"", "build a shelter"}

\* agent.setApiKey(key)
SetApiKey(key) ==
    /\ apiKey' = key
    /\ UNCHANGED <<world, budget, isRunning, conversationHistory, runs, ui>>

\* agent.start(goal), up to its early return or to its first fetch
AgentStart(goal) ==
    /\ apiKey # "" => Len(runs) < MaxRuns /\ TotalCalls < MaxServiceCalls
    /\ start(goal, apiKey)
    /\ UNCHANGED <<world, budget, apiKey>>

\* agent.stop()
AgentStop ==
    /\ stop
    /\ UNCHANGED <<world, budget, conversationHistory, apiKey, ui>>

NextAgent ==
    \/ \E key \in ApiKeyInputs : SetApiKey(key)
    \/ \E goal \in GoalArgs : AgentStart(goal)
    \/ AgentStop
    \/ \E r \in 1 .. MaxRuns, response \in ServiceResponses : Response(r, response)
    \/ \E r \in 1 .. MaxRuns : PauseElapsed(r)

SpecAgent == Init /\ [][NextAgent]_vars

-----------------------------------------------------------------------------
(* Properties of the world.                                                *)

Tiles(w) == {w.grid[row][col] : row \in 1 .. gridSize, col \in 1 .. gridSize}

StartPosition == [x |-> 10, y |-> 10]

\* C1: in every state reachable by direct catalog calls and resets, the agent's
\* position is inside [0, gridSize) x [0, gridSize) and its tile is not water.
C1_PositionValidAndDry ==
    /\ isValidPosition(world.agent.position)
    /\ getTileAt(world, world.agent.position).terrain # "water"

\* C1's case: the agent has walked up to a water tile or to the boundary, and
\* a move towards it is refused.
C1_Witness ==
    /\ world.agent.position # StartPosition
    /\ \E direction \in validDirections : ~move(world, direction).result.success

\* C2: on every tile the resource kind is present exactly when the remaining
\* quantity is present and positive; a depleted tile has lost both together.
C2_ResourceIffQuantity ==
    \A tile \in Tiles(world) :
        /\ Has(tile, "resource") <=> Has(tile, "resourceAmount")
        /\ Has(tile, "resourceAmount") => tile.resourceAmount > 0

\* C2's case: some tile that was generated with a resource has been gathered
\* down to exactly 0.
C2_Witness ==
    \E pos \in Positions :
        /\ Has(getTileAt(createWorld, pos), "resource")
        /\ ~Has(getTileAt(world, pos), "resource")

\* C3: every key present in the inventory maps to a strictly positive integer.
C3_InventoryCountsPositive ==
    \A k \in DOMAIN world.agent.inventory :
        /\ world.agent.inventory[k].type = "number"
        /\ world.agent.inventory[k].value > 0

-----------------------------------------------------------------------------
(* The orchestration loop.                                                 *)

\* Run r resumes from its fetch in this step.
Received(r) ==
    /\ runs[r].pc = "awaitResponse"
    /\ runs'[r].pc # "awaitResponse" \/ runs'[r].iteration # runs[r].iteration

\* Run r executes requested operations, or sends a request, in this step.
Acts(r) ==
    \/ runs[r].pc = "awaitResponse" /\ runs'[r].pc = "pause"
    \/ runs'[r].iteration > runs[r].iteration

\* C4: once stop() was called while a run waited for the service, the answer
\* ends that run without executing an operation or changing the world.
C4_StopDuringCallExecutesNothing ==
    [][\A r \in DOMAIN runs :
          Received(r) /\ runs[r].stopRequested
          => /\ runs'[r].pc = "done"
             /\ world' = world
             /\ conversationHistory' = conversationHistory]_vars

\* C5: at most one run is active: while a later run is suspended in its loop
\* and was not stopped, no earlier run sends a request or executes operations.
C5_OneActiveRun ==
    [][\A r, q \in DOMAIN runs :
          r < q /\ Live(runs[q]) /\ ~runs[q].stopRequested => ~Acts(r)]_vars

\* C6: after a reset, no step of a run started before it changes the world.
C6_NoMutationAfterReset ==
    [][\A r \in DOMAIN runs :
          runs[r].stale /\ runs'[r].pc # runs[r].pc => world' = world]_vars

FailureLines == {"Error", "No response from Gemini"}

\* C7: a run makes at most maxIterations requests, and a run that was never
\* stopped and left the loop by the loop condition (every answer requested an
\* operation, none failed) made exactly maxIterations and logged the maximum.
C7_UnstoppedRunReachesMaximum ==
    \A r \in DOMAIN runs :
        /\ runs[r].iteration <= maxIterations
        /\ runs[r].pc = "done" /\ ~runs[r].stopRequested
           /\ runs[r].response.kind = "content"
           /\ runs[r].response.functionCalls # <<>>
           => /\ runs[r].iteration = maxIterations
              /\ "Reached maximum iterations" \in runs[r].logged

\* C8: a failed request (an error, or an answer without content) ends the run:
\* the failure is logged, nothing is executed or appended, no completion is
\* logged, and a run that has ended sends no further request.
C8_FailureEndsRun ==
    [][\A r \in DOMAIN runs :
          /\ Received(r) /\ runs'[r].response.kind \in {"error", "nocontent"}
             => /\ runs'[r].pc = "done"
                /\ runs'[r].iteration = runs[r].iteration
                /\ runs'[r].logged \cap FailureLines # {}
                /\ "Agent completed its task" \notin runs'[r].logged
                /\ world' = world
                /\ conversationHistory' = conversationHistory
          /\ runs[r].pc = "done" => runs'[r] = runs[r]]_vars

\* C8's case: a run has ended on a failed request.
C8_Witness ==
    \E r \in DOMAIN runs :
        /\ runs[r].pc = "done"
        /\ runs[r].response.kind \in {"error", "nocontent"}

\* C9: an answer with zero requested operations ends the run as completed, in
\* the same iteration, with the world and the conversation untouched.
C9_NoOperationsCompletes ==
    [][\A r \in DOMAIN runs :
          /\ Received(r)
          /\ runs'[r].response.kind = "content"
          /\ runs'[r].response.functionCalls = <<>>
          => /\ runs'[r].pc = "done"
             /\ runs'[r].iteration = runs[r].iteration
             /\ "Agent completed its task" \in runs'[r].logged
             /\ runs'[r].logged \cap FailureLines = {}
             /\ world' = world
             /\ conversationHistory' = conversationHistory]_vars

\* C9's case: a run whose first answer had no operations has ended after one
\* iteration.
C9_Witness ==
    \E r \in DOMAIN runs :
        /\ runs[r].pc = "done"
        /\ runs[r].iteration = 1
        /\ runs[r].response = [kind |-> "content", functionCalls |-> <<>>]
        /\ "Agent completed its task" \in runs[r].logged

CatalogNames == {"move", "look", "gather", "craft", "build", "getInventory"}

\* The calls of a sequence whose name is in the catalog, in order.
KnownCalls(functionCalls) ==
    SelectSeq(functionCalls, LAMBDA call : call.name \in CatalogNames)

\* C10: an operation name outside the catalog yields success = false and
\* leaves the world alone; its outcome is appended like any other, the other
\* operations of the answer are executed, and the run goes on to its pause
\* and from there to the next iteration.
C10_UnknownOperationIsLocalFailure ==
    [][\A r \in DOMAIN runs :
          /\ Received(r)
             /\ runs'[r].response.kind = "content"
             /\ (\E i \in DOMAIN runs'[r].response.functionCalls :
                    runs'[r].response.functionCalls[i].name \notin CatalogNames)
             => LET functionCalls == runs'[r].response.functionCalls
                    n == Len(conversationHistory')
                IN /\ runs'[r].pc = "pause"
                   /\ n = Len(conversationHistory) + 2
                   /\ SubSeq(conversationHistory', 1, n - 2) = conversationHistory
                   /\ conversationHistory'[n - 1].role = "model"
                   /\ conversationHistory'[n].role = "user"
                   /\ Len(conversationHistory'[n].parts) = Len(functionCalls)
                   /\ \A j \in DOMAIN functionCalls :
                        LET out == conversationHistory'[n].parts[j].functionResponse IN
                        /\ conversationHistory'[n - 1].parts[j].functionCall = functionCalls[j]
                        /\ out.name = functionCalls[j].name
                        /\ functionCalls[j].name \notin CatalogNames
                           => ~out.response.success
                   /\ world' = ExecuteCalls(world, KnownCalls(functionCalls), <<>>).world
          /\ runs[r].pc = "pause" /\ runs'[r].pc # "pause"
             /\ isRunning /\ runs[r].iteration < maxIterations
             => /\ runs'[r].pc = "awaitResponse"
                /\ runs'[r].iteration = runs[r].iteration + 1]_vars

\* C10's case: an unknown operation was answered in the conversation, a known
\* one of the same answer changed the world, and the run is in its next iteration.
C10_Witness ==
    \E r \in DOMAIN runs :
        /\ runs[r].pc = "awaitResponse"
        /\ runs[r].iteration = 2
        /\ runs[r].response = [kind |-> "content",
                               functionCalls |-> <<FlyCall, GatherStoneCall>>]
        /\ Len(conversationHistory) = 3
        /\ ~conversationHistory[3].parts[1].functionResponse.response.success
        /\ conversationHistory[3].parts[2].functionResponse.response.success
        /\ world # createWorld

-----------------------------------------------------------------------------
(* Starting a run.                                                         *)

\* C11: a call of start(goal) while no credential is configured changes
\* nothing: isRunning keeps its value, the conversation is neither seeded nor
\* modified, no run (and so no request) is started, and the world is unchanged.
C11_StartWithoutCredentialIsRejected ==
    [][\A goal \in GoalArgs :
          apiKey = "" /\ AgentStart(goal)
          => /\ isRunning' = isRunning
             /\ conversationHistory' = conversationHistory
             /\ runs' = runs
             /\ world' = world]_vars

\* C11's case: start() has returned to its caller with no credential
\* configured and no run ever started.
C11_Witness ==
    /\ apiKey = ""
    /\ ui = AgentFinishedUI
    /\ runs = <<>>
    /\ ~isRunning
    /\ conversationHistory = <<>>

\* C12: no run is ever started with an empty goal: no step appends a run whose
\* seeded conversation carries the empty goal.
C12_EmptyGoalIsRejected ==
    [][Len(runs') > Len(runs)
       => conversationHistory'[1].parts[1].text # SystemPrompt("")]_vars

\* C13: the agent's isActive flag is true exactly while a run is in progress.
C13_ActiveFlagFollowsRun ==
    world.agent.isActive <=> isRunning

-----------------------------------------------------------------------------
(* The operations of the catalog, applied to every reachable world.        *)

\* The agent's tile
Here(w) == getTileAt(w, w.agent.position)

\* The count the inventory holds of a kind, 0 for a missing key
Count(w, k) ==
    IF k \in DOMAIN w.agent.inventory THEN w.agent.inventory[k].value ELSE 0

\* The inventory with the count of kind k set to n; a count of 0 has no key.
WithCount(inventory, k, n) ==
    IF n = 0 THEN [j \in DOMAIN inventory \ {k} |-> inventory[j]]
    ELSE [j \in DOMAIN inventory \cup {k} |-> IF j = k THEN Num(n) ELSE inventory[j]]

\* The tile with n left of its resource; with 0 left it carries no resource.
WithAmount(tile, n) ==
    IF n = 0 THEN [f \in DOMAIN tile \ {"resource", "resourceAmount"} |-> tile[f]]
    ELSE [tile EXCEPT !.resourceAmount = n]

\* C14: gather(kind) on a tile that carries q > 0 of that kind succeeds with
\* amount a = min(5, q); the tile keeps q - a (no resource at all when that is
\* 0), the inventory's count of the kind grows by a, nothing else changes.
C14_GatherTakesMinOfFiveAndQuantity ==
    \A resource \in ResourceArgs :
        LET tile == Here(world)
            pos == world.agent.position
            out == gather(world, resource)
        IN Has(tile, "resource") /\ tile.resource = resource
           => LET q == tile.resourceAmount
                  a == Min(5, q)
              IN /\ q > 0
                 /\ out.result.success
                 /\ out.result.data = [resource |-> resource, amount |-> a]
                 /\ out.world =
                      [world EXCEPT
                         !.grid[pos.y + 1][pos.x + 1] = WithAmount(tile, q - a),
                         !.agent.inventory =
                             WithCount(@, resource, Count(world, resource) + a)]

\* C14's case: the 8 stone of the start tile were gathered once: 5 are in the
\* inventory and 3 are left on the tile.
C14_Witness ==
    LET tile == getTileAt(world, StartPosition) IN
    /\ getTileAt(createWorld, StartPosition).resourceAmount = 8
    /\ Has(tile, "resourceAmount") /\ tile.resourceAmount = 3
    /\ Count(world, "stone") = 5

\* C15: gather(kind) on a tile without a resource, or with a resource of
\* another kind, fails and leaves the whole world as it is, so that repeating
\* it changes nothing either.
C15_FailedGatherChangesNothing ==
    \A resource \in ResourceArgs :
        LET tile == Here(world)
            out == gather(world, resource)
        IN ~Has(tile, "resource") \/ tile.resource # resource
           => /\ ~out.result.success
              /\ out.world = world
              /\ gather(out.world, resource) = out

\* C15's case: the agent carries a kind it gathered and stands on a tile that
\* it has emptied, or on a tile that carries another kind.
C15_Witness ==
    \E resource \in ResourceArgs \cap DOMAIN world.agent.inventory :
        /\ \/ /\ Has(getTileAt(createWorld, world.agent.position), "resource")
              /\ ~Has(Here(world), "resource")
           \/ /\ Has(Here(world), "resource")
              /\ Here(world).resource # resource
        /\ ~gather(world, resource).result.success

\* What the catalog asks for: the resources of each recipe and of each structure
RecipeOf ==
    [axe |-> [wood |-> 3, stone |-> 2],
     pickaxe |-> [wood |-> 2, stone |-> 3],
     campfire |-> [wood |-> 5, stone |-> 3]]

RequirementOf ==
    [shelter |-> [wood |-> 10, stone |-> 5],
     campfire |-> [wood |-> 3, stone |-> 2]]

\* The inventory lacks the needed amount of at least one kind.
Short(w, need) == \E k \in DOMAIN need : Count(w, k) < need[k]

\* C16: craft and build are all-or-nothing on a shortfall: when the inventory
\* lacks the amount of any one required kind, the operation fails and the whole
\* world (inventory, tiles, structures) stays as it is.
C16_ShortfallChangesNothing ==
    /\ \A item \in DOMAIN RecipeOf :
          Short(world, RecipeOf[item])
          => LET out == craft(world, item)
             IN ~out.result.success /\ out.world = world
    /\ \A structure \in DOMAIN RequirementOf :
          Short(world, RequirementOf[structure])
          => LET out == build(world, structure)
             IN ~out.result.success /\ out.world = world

\* C16's case: the inventory holds enough of one kind of a recipe and too
\* little of another (enough wood for an axe and a campfire, but no stone).
C16_Witness ==
    /\ Count(world, "wood") >= 3
    /\ Count(world, "stone") < 2
    /\ ~craft(world, "axe").result.success
    /\ ~build(world, "campfire").result.success

\* The worlds the operations of the catalog leave when called on world w
CatalogOutcomes(w) ==
    {move(w, direction).world : direction \in DirectionArgs}
    \cup {gather(w, resource).world : resource \in ResourceArgs}
    \cup {craft(w, item).world : item \in ItemArgs}
    \cup {build(w, structure).world : structure \in StructureArgs}
    \cup {look(w).world, getInventory(w).world}

\* C17: build on a tile that carries a structure fails and changes nothing
\* (the structure stays, no resource is consumed); no operation of the catalog
\* overwrites or removes a structure; no water tile carries a structure.
C17_StructuresAreKept ==
    /\ Has(Here(world), "structure")
       => \A structure \in StructureArgs :
              LET out == build(world, structure)
              IN ~out.result.success /\ out.world = world
    /\ \A row \in 1 .. gridSize, col \in 1 .. gridSize :
          Has(world.grid[row][col], "structure")
          => /\ world.grid[row][col].terrain # "water"
             /\ \A w \in CatalogOutcomes(world) :
                   /\ Has(w.grid[row][col], "structure")
                   /\ w.grid[row][col].structure = world.grid[row][col].structure

\* C17's case: the agent stands on a tile with a structure and carries what a
\* campfire requires, and build("campfire") is refused.
C17_Witness ==
    /\ Has(Here(world), "structure")
    /\ ~Short(world, RequirementOf["campfire"])
    /\ ~build(world, "campfire").result.success

\* The argument strings outside each operation's enumerated values
InvalidDirections == DirectionArgs \ {"north", "south", "east", "west"}
InvalidResources == ResourceArgs \ {"wood", "stone", "sand", "food"}
InvalidItems == ItemArgs \ {"axe", "pickaxe", "campfire"}
InvalidStructures == StructureArgs \ {"shelter", "campfire"}

\* C18: an operation called with an argument outside its enumerated values
\* fails and leaves position, inventory and all tiles unchanged.
C18_InvalidArgumentChangesNothing ==
    /\ \A direction \in InvalidDirections :
          LET out == move(world, direction)
          IN ~out.result.success /\ out.world = world
    /\ \A resource \in InvalidResources :
          LET out == gather(world, resource)
          IN ~out.result.success /\ out.world = world
    /\ \A item \in InvalidItems :
          LET out == craft(world, item)
          IN ~out.result.success /\ out.world = world
    /\ \A structure \in InvalidStructures :
          LET out == build(world, structure)
          IN ~out.result.success /\ out.world = world

\* The adjacent cell in a direction
Adjacent(pos, direction) ==
    CASE direction = "north" -> [x |-> pos.x, y |-> pos.y - 1]
      [] direction = "south" -> [x |-> pos.x, y |-> pos.y + 1]
      [] direction = "east" -> [x |-> pos.x + 1, y |-> pos.y]
      [] direction = "west" -> [x |-> pos.x - 1, y |-> pos.y]

InBounds(pos) == pos.x \in 0 .. gridSize - 1 /\ pos.y \in 0 .. gridSize - 1

\* The cell is outside the grid or its tile is water.
Blocked(w, pos) == ~InBounds(pos) \/ w.grid[pos.y + 1][pos.x + 1].terrain = "water"

\* C19: a move towards a cell outside the grid or a water tile fails and leaves
\* the world as it is; any other move in a valid direction succeeds and changes
\* exactly the position, to the adjacent cell in that direction.
C19_MoveIsBlockedOrExact ==
    \A direction \in {"north", "south", "east", "west"} :
        LET target == Adjacent(world.agent.position, direction)
            out == move(world, direction)
        IN IF Blocked(world, target)
           THEN ~out.result.success /\ out.world = world
           ELSE /\ out.result.success
                /\ out.result.data.position = target
                /\ out.world = [world EXCEPT !.agent.position = target]

\* C19's case: the agent has moved next to a water tile inside the grid, and
\* the move onto it is refused.
C19_Witness ==
    /\ world.agent.position # StartPosition
    /\ \E direction \in {"north", "south", "east", "west"} :
          LET target == Adjacent(world.agent.position, direction)
          IN /\ InBounds(target)
             /\ Blocked(world, target)
             /\ ~move(world, direction).result.success

\* C20: a successful craft(item) debits exactly the recipe's amounts (a count
\* that reaches 0 loses its key), credits exactly one unit of the item and
\* changes nothing else; it succeeds only when no required kind is short.
C20_CraftDebitsRecipeAndCreditsOne ==
    \A item \in ItemArgs :
        LET out == craft(world, item)
            need == IF item \in DOMAIN RecipeOf THEN RecipeOf[item] ELSE <<>>
            debited ==
                [k \in {j \in DOMAIN world.agent.inventory :
                            ~(j \in DOMAIN need /\ Count(world, j) = need[j])} |->
                    IF k \in DOMAIN need THEN Num(Count(world, k) - need[k])
                    ELSE world.agent.inventory[k]]
        IN out.result.success
           => /\ ~Short(world, need)
              /\ out.world.agent.inventory[item].type = "number"
              /\ out.world =
                   [world EXCEPT !.agent.inventory =
                       WithCount(debited, item, Count(world, item) + 1)]

\* C21: reset() after any sequence of operations leaves a world equal to a
\* freshly created one: every tile holds the value generated for its
\* coordinate (no structure), the agent stands at (10,10) with an empty
\* inventory and its active flag is false.
C21_ResetRestoresTheFreshWorld ==
    [][Reset =>
          /\ world'.size = gridSize
          /\ \A row \in 1 .. gridSize : \A col \in 1 .. gridSize :
                world'.grid[row][col] = generateTile(col - 1, row - 1)
          /\ world'.agent.position = StartPosition
          /\ DOMAIN world'.agent.inventory = {}
          /\ world'.agent.isActive = FALSE]_vars

\* C21's case: reset is called on a world whose agent has moved, holds
\* resources, has drawn a tile's quantity down and has built a structure.
C21_Witness ==
    /\ world.agent.position # StartPosition
    /\ DOMAIN world.agent.inventory # {}
    /\ \E row \in 1 .. gridSize : \E col \in 1 .. gridSize :
          /\ Has(world.grid[row][col], "structure")
          /\ world.grid[row][col] # generateTile(col - 1, row - 1)
    /\ \E row \in 1 .. gridSize : \E col \in 1 .. gridSize :
          /\ Has(generateTile(col - 1, row - 1), "resourceAmount")
          /\ ~Has(world.grid[row][col], "structure")
          /\ world.grid[row][col] # generateTile(col - 1, row - 1)
    /\ ENABLED Reset

\* Amounts credited and debited in the round trip of C22
MaxAmount == 3

\* C22: for every inventory, every item and every amount > 0, crediting the
\* item by the amount and then debiting the same item by the same amount
\* succeeds and leaves the inventory exactly as it was before the credit,
\* including which keys it has.
C22_CreditThenDebitRestores ==
    \A item \in ResourceArgs \cup ItemArgs : \A amount \in 1 .. MaxAmount :
        LET credited == addToInventory(world, item, amount)
            debited == removeFromInventory(credited, item, amount)
        IN /\ debited.ok
           /\ debited.world.agent.inventory = world.agent.inventory

\* C23: the terminal outcomes of a run exclude one another.  "Reached maximum
\* iterations" is logged only by a run that hit the bound of 30 rounds without
\* completing: a run that completes (an answer without operations) or that a
\* service failure ends, be it in its 30th round, logs its own line only.
C23_TerminalOutcomesAreExclusive ==
    \A r \in DOMAIN runs :
        "Reached maximum iterations" \in runs[r].logged
        => /\ runs[r].iteration >= maxIterations
           /\ "Agent completed its task" \notin runs[r].logged
           /\ runs[r].logged \cap FailureLines = {}

\* C24: a stop() issued while a run is in its pause between two rounds is
\* honoured before the next round.  With no start() after the stop, the run
\* that resumes from the pause reads the flag at the loop head and ends there:
\* it sends no further request, executes no further operation, appends nothing
\* to the conversation, logs neither a completion nor a failure, and leaves
\* the flag false.
C24_StopDuringPauseIsHonoured ==
    [][\A r \in DOMAIN runs :
          /\ runs[r].pc = "pause"
          /\ runs[r].stopRequested
          /\ r = Len(runs)
          /\ runs'[r].pc # "pause"
          => /\ runs'[r].pc = "done"
             /\ runs'[r].iteration = runs[r].iteration
             /\ world' = world
             /\ conversationHistory' = conversationHistory
             /\ runs'[r].logged \cap ({"Agent completed its task"} \cup FailureLines) = {}
             /\ ~isRunning']_vars

\* C24's case: the latest run executed a round, was stopped, and ended at the
\* loop head after its pause without a terminal line of its own.
C24_Witness ==
    \E r \in DOMAIN runs :
        /\ r = Len(runs)
        /\ runs[r].pc = "done"
        /\ runs[r].stopRequested
        /\ runs[r].response.kind = "content"
        /\ runs[r].response.functionCalls # <<>>
        /\ runs[r].logged = {}
        /\ Len(conversationHistory) = 1 + 2 * runs[r].iteration
        /\ ui.stateText = "Completed"

\* The rounds run r has completed: a round is complete when its two turns are
\* pushed, that is from its pause on.
RoundsOf(run) ==
    IF run.pc = "pause"
       \/ (run.pc = "done" /\ run.response.kind = "content"
           /\ run.response.functionCalls # <<>>)
    THEN run.iteration
    ELSE run.iteration - 1

\* C25: the conversation of a run starts with exactly one user turn, the
\* instruction.  A round whose answer requested n >= 1 operations appends, after
\* the n operations have executed one after the other, exactly one model turn
\* listing the n operations in order and then exactly one user turn with their
\* n outcomes in the same order.  After k rounds of the run that started the
\* conversation it has 1 + 2k turns with alternating roles; between two starts
\* its turns are only appended, never removed or reordered.
C25_ConversationShape ==
    /\ []((conversationHistory # <<>>)
          => /\ conversationHistory[1].role = "user"
             /\ Len(conversationHistory[1].parts) = 1
             /\ DOMAIN conversationHistory[1].parts[1] = {"text"}
             /\ \A i \in 2 .. Len(conversationHistory) :
                   conversationHistory[i].role =
                       IF i % 2 = 0 THEN "model" ELSE "user"
             /\ Len(conversationHistory)
                    = 1 + 2 * RoundsOf(runs[Len(runs)]))
    /\ [][conversationHistory' # conversationHistory
          => \/ /\ Len(runs') = Len(runs) + 1
                /\ Len(conversationHistory') = 1
             \/ \E r \in DOMAIN runs :
                   /\ runs[r].pc = "awaitResponse"
                   /\ runs'[r].pc = "pause"
                   /\ LET calls == runs'[r].response.functionCalls
                          n == Len(calls)
                          before == Len(conversationHistory)
                          WorldAfter(j) ==
                              ExecuteCalls(world, SubSeq(calls, 1, j), <<>>).world
                      IN /\ n >= 1
                         /\ Len(conversationHistory') = before + 2
                         /\ SubSeq(conversationHistory', 1, before)
                                = conversationHistory
                         /\ conversationHistory'[before + 1] =
                                [role |-> "model",
                                 parts |-> [j \in 1 .. n |->
                                               [functionCall |-> calls[j]]]]
                         /\ conversationHistory'[before + 2] =
                                [role |-> "user",
                                 parts |-> [j \in 1 .. n |->
                                     [functionResponse |->
                                         [name |-> calls[j].name,
                                          response |->
                                              executeTool(WorldAfter(j - 1),
                                                  calls[j].name,
                                                  calls[j].args).result]]]]
                         /\ world' = WorldAfter(n)]_vars

\* C26: every started run terminates.  With every request eventually answered
\* (or failing) and every pause eventually elapsing, a run that was started
\* eventually ends; the run that has ended was stopped, completed, failed or
\* reached the maximum of iterations, the flag is false, and from then on the
\* run sends no request, mutates no world and appends nothing to the
\* conversation.
C26_EveryStartedRunTerminates ==
    /\ (Len(runs) >= 1) ~> (Len(runs) >= 1 /\ runs[1].pc = "done")
    /\ [](\A r \in DOMAIN runs :
             runs[r].pc = "done"
             => /\ ~isRunning
                /\ runs[r].iteration <= maxIterations
                /\ \/ runs[r].stopRequested
                   \/ runs[r].logged # {})
    /\ [][\A r \in DOMAIN runs :
             runs[r].pc = "done"
             => /\ runs'[r] = runs[r]
                /\ world' = world
                /\ conversationHistory' = conversationHistory]_vars

\* C26's case: a run that nobody stopped went through all its rounds, each
\* answered with an operation, and ended at the bound.
C26_Witness ==
    /\ Len(runs) = 1
    /\ runs[1].pc = "done"
    /\ runs[1].iteration = maxIterations
    /\ ~runs[1].stopRequested
    /\ runs[1].logged = {"Reached maximum iterations"}
    /\ Len(conversationHistory) = 1 + 2 * maxIterations
    /\ ~isRunning

ResourceKinds == {"wood", "stone", "sand", "food"}

\* What a tile carries of a kind
AmountOf(tile, kind) ==
    IF Has(tile, "resource") /\ tile.resource = kind /\ Has(tile, "resourceAmount")
    THEN tile.resourceAmount ELSE 0

\* The cells whose tile differs between two worlds
Changed(w, v) ==
    UNION {{<<row, col>> : col \in {c \in 1 .. gridSize :
                                       w.grid[row][c] # v.grid[row][c]}} :
              row \in {r \in 1 .. gridSize : w.grid[r] # v.grid[r]}}

RECURSIVE TileGain(_, _, _, _)
TileGain(cells, w, v, kind) ==
    IF cells = {} THEN 0
    ELSE LET cell == CHOOSE c \in cells : TRUE
         IN AmountOf(v.grid[cell[1]][cell[2]], kind)
            - AmountOf(w.grid[cell[1]][cell[2]], kind)
            + TileGain(cells \ {cell}, w, v, kind)

\* The amount of a kind that a recipe or a requirement names
Needed(table, name, kind) ==
    IF name \in DOMAIN table /\ kind \in DOMAIN table[name]
    THEN table[name][kind] ELSE 0

\* The total of a kind over all tiles and the inventory
RECURSIVE RowTotal(_, _)
RowTotal(tiles, kind) ==
    IF tiles = <<>> THEN 0
    ELSE AmountOf(Head(tiles), kind) + RowTotal(Tail(tiles), kind)

RECURSIVE GridTotal(_, _)
GridTotal(rows, kind) ==
    IF rows = <<>> THEN 0
    ELSE RowTotal(Head(rows), kind) + GridTotal(Tail(rows), kind)

Total(w, kind) == GridTotal(w.grid, kind) + Count(w, kind)

\* No amount of any kind
NoLoss == [kind \in ResourceKinds |-> 0]

\* World v holds, of every kind, exactly loss[kind] less than world w over the
\* given cells and the inventory; each of the cells keeps its terrain and its
\* kind of resource, with a quantity that is not larger.
Keeps(w, v, cells, loss) ==
    /\ \A kind \in ResourceKinds :
          TileGain(cells, w, v, kind) + Count(v, kind) - Count(w, kind)
              = 0 - loss[kind]
    /\ \A cell \in cells :
          LET old == w.grid[cell[1]][cell[2]]
              new == v.grid[cell[1]][cell[2]]
          IN /\ new.terrain = old.terrain
             /\ Has(new, "resource")
                => Has(old, "resource") /\ new.resource = old.resource
             /\ Has(new, "resourceAmount")
                => /\ Has(old, "resourceAmount")
                   /\ new.resourceAmount <= old.resourceAmount

\* The outcome of an operation on world w loses exactly `loss` when the
\* operation succeeds and nothing when it fails.
Conserves(w, out, loss) ==
    Keeps(w, out.world, Changed(w, out.world),
          IF out.result.success THEN loss ELSE NoLoss)

\* C27: resources are conserved between resets.  For each kind, the sum of
\* what all tiles carry and of the inventory's count never grows: gather
\* leaves it as it is, a successful craft or build lowers it by exactly the
\* amounts of its recipe or requirement, a failed one and move, look and
\* getInventory leave it as it is.  No operation raises a tile's quantity, and
\* none changes a tile's terrain or gives its resource another kind.
C27_ResourcesAreConserved ==
    /\ \A direction \in DirectionArgs :
          Conserves(world, move(world, direction), NoLoss)
    /\ Conserves(world, look(world), NoLoss)
    /\ Conserves(world, getInventory(world), NoLoss)
    /\ \A resource \in ResourceArgs :
          Conserves(world, gather(world, resource), NoLoss)
    /\ \A item \in ItemArgs :
          Conserves(world, craft(world, item),
                    [kind \in ResourceKinds |-> Needed(RecipeOf, item, kind)])
    /\ \A structure \in StructureArgs :
          Conserves(world, build(world, structure),
                    [kind \in ResourceKinds |->
                        Needed(RequirementOf, structure, kind)])

\* C27's case: resources were gathered from tiles and crafted into an item,
\* so that the total of wood is below the one of the fresh world.
C27_Witness ==
    /\ \E item \in DOMAIN RecipeOf : Count(world, item) >= 1
    /\ \E row \in 1 .. gridSize : \E col \in 1 .. gridSize :
          AmountOf(world.grid[row][col], "wood")
              < AmountOf(generateTile(col - 1, row - 1), "wood")
    /\ Total(world, "wood") < Total(createWorld, "wood")

====
